---------------------------- MODULE Spec2Model ----------------------------
(***************************************************************************)
(* Record reconciliation pipeline of the restaurant business directory     *)
(* scraper: DataProcessor (src/src/processors/data_processor.py) and the    *)
(* detail merge of ScraperManager (src/src/scraper_manager.py) over        *)
(* Business records (src/src/models.py).                                   *)
(*                                                                         *)
(* A Python str is a sequence of one-character strings; None is the        *)
(* one-element sequence <<"None">>, which no str equals.  An optional      *)
(* number (rating) is the empty sequence (None) or <<n>>.  Business        *)
(* objects live in a heap and lists hold object ids, because the code      *)
(* mutates the records it is handed in place.                              *)
(***************************************************************************)
EXTENDS Integers, Sequences, FiniteSets, TLC

VARIABLES
    heap,              \* object id -> Business record (fields mutated in place)
    input,             \* the list handed to the call in progress (object ids)
    businesses,        \* the local list threaded through the stages
    unique_businesses, \* remove_duplicates: survivors accepted so far
    seen_signatures,   \* remove_duplicates: signatures of the survivors
    idx,               \* remove_duplicates: position of the loop in businesses
    entry,             \* the method called: "remove_duplicates",
                       \* "process_businesses" or "_are_duplicates"
    pc,                \* position of the call in progress
    search_filter,     \* the SearchFilter of process_businesses, or NoFilter
    email_enabled,     \* config.get('email_validation.enabled', True)
    run,               \* number of the call in progress (1 or 2)
    call,              \* what the call in progress was given: "first" (fresh
                       \* input), "output" (the previous call's result) or
                       \* "input" (the first call's input list again)
    heap0,             \* snapshot: the heap before the first call
    result1,           \* snapshot: the list the first call returned
    heap1,             \* snapshot: the heap when the first call returned
    dedup_in,          \* snapshot: the list remove_duplicates was last given
    last_step,         \* record of the last loop iteration of remove_duplicates
                       \* or of the last merge
    ret,               \* value returned by a directly applied pure function
    merged,            \* object id -> the data sources of every record
                       \* merged into the object so far
    tasks,             \* TaskScheduler.tasks: task id -> task configuration
    task_files,        \* data/tasks/<task id>.json: task id -> configuration
    jobs,              \* jobs of the BackgroundScheduler: task id -> trigger
    is_running,        \* TaskScheduler.is_running
    now,               \* datetime.now()
    task_run,          \* task id -> position of its task function: "none",
                       \* "started" or "returned"
    sched_pc,          \* "up", or "restarted" before load_saved_tasks
    proxy_file,        \* the proxies listed in the proxy list file
    proxies,           \* ProxyManager.proxies
    working_proxies,   \* ProxyManager.working_proxies
    current_proxy_index \* ProxyManager.current_proxy_index

vars == <<heap, input, businesses, unique_businesses, seen_signatures, idx,
          entry, pc, search_filter, email_enabled, run, call, heap0, result1, heap1, dedup_in,
          last_step, ret, merged, tasks, task_files, jobs, is_running, now,
          task_run, sched_pc, proxy_file, proxies, working_proxies,
          current_proxy_index>>

\* the state of the TaskScheduler
schedulerVars == <<tasks, task_files, jobs, is_running, now, task_run, sched_pc>>

\* the state of the ProxyManager
proxyVars == <<proxy_file, proxies, working_proxies, current_proxy_index>>

\* the state of the DataProcessor and of the calls made on it
processorVars ==
    <<heap, input, businesses, unique_businesses, seen_signatures, idx, entry,
      pc, search_filter, email_enabled, run, call, heap0, result1, heap1,
      dedup_in, last_step, ret, merged>>

\* the same without the value returned by the last call
processorVarsButRet ==
    <<heap, input, businesses, unique_businesses, seen_signatures, idx, entry,
      pc, search_filter, email_enabled, run, call, heap0, result1, heap1,
      dedup_in, last_step, merged>>

-----------------------------------------------------------------------------
(* Bounds of the model *)

\* longest list handed to remove_duplicates
MaxRecords == 3

\* longest list handed to process_businesses
MaxBatch == 3

\* longest sequence of merges applied to a set of records
MaxMerges == 3

\* longest text handed to _clean_text
MaxText == 4

\* latest time the clock of the scheduler reaches
MaxTime == 2

\* longest list of proxies the ProxyManager loads
MaxProxies == 4

-----------------------------------------------------------------------------
(* Python values *)

None == <<"None">>

Truthy(v) == v # None /\ v # <<>>

\* str(v) as an f-string renders it
Str(v) == IF v = None THEN <<"N", "o", "n", "e">> ELSE v

Range(s) == {s[i] : i \in 1..Len(s)}

\* TaskScheduler(): no tasks, no jobs, not started
NoScheduler ==
    /\ tasks = <<>>
    /\ task_files = <<>>
    /\ jobs = <<>>
    /\ is_running = FALSE
    /\ now = 0
    /\ task_run = <<>>
    /\ sched_pc = "up"

\* a ProxyManager without a proxy list
NoProxyManager ==
    /\ proxy_file = <<>>
    /\ proxies = <<>>
    /\ working_proxies = <<>>
    /\ current_proxy_index = 0

-----------------------------------------------------------------------------
(* Characters *)

UpperSeq == <<"A", "B", "C", "D", "E", "F", "G", "H", "I", "J", "K", "L", "M",
              "N", "O", "P", "Q", "R", "S", "T", "U", "V", "W", "X", "Y", "Z">>

LowerSeq == <<"a", "b", "c", "d", "e", "f", "g", "h", "i", "j", "k", "l", "m",
              "n", "o", "p", "q", "r", "s", "t", "u", "v", "w", "x", "y", "z">>

UpperCase == Range(UpperSeq)

LowerCase == Range(LowerSeq)

Digits == {"0", "1", "2", "3", "4", "5", "6", "7", "8", "9"}

\* \w
WordChars == UpperCase \cup LowerCase \cup Digits \cup {"_"}

\* \s
Whitespace == {" ", "\t", "\n"}

\* the punctuation _clean_text keeps besides \w and \s
AllowedPunct == {"-", ".", ",", "&", "'", "(", ")", "/"}

LowerChar(c) ==
    IF c \in UpperCase
    THEN LowerSeq[CHOOSE i \in 1..Len(UpperSeq) : UpperSeq[i] = c]
    ELSE c

\* str.lower()
Lower(s) == [i \in 1..Len(s) |-> LowerChar(s[i])]

\* re.sub over single characters: drop every character outside keep
RECURSIVE KeepChars(_, _)
KeepChars(s, keep) ==
    IF s = <<>> THEN <<>>
    ELSE IF Head(s) \in keep THEN <<Head(s)>> \o KeepChars(Tail(s), keep)
    ELSE KeepChars(Tail(s), keep)

RECURSIVE LStrip(_)
LStrip(s) ==
    IF s # <<>> /\ Head(s) \in Whitespace THEN LStrip(Tail(s)) ELSE s

RECURSIVE RStrip(_)
RStrip(s) ==
    IF s # <<>> /\ s[Len(s)] \in Whitespace
    THEN RStrip(SubSeq(s, 1, Len(s) - 1))
    ELSE s

\* str.strip()
Strip(s) == RStrip(LStrip(s))

\* re.sub(r'\s+', ' ', s)
RECURSIVE CollapseWhitespace(_)
CollapseWhitespace(s) ==
    IF s = <<>> THEN <<>>
    ELSE IF Head(s) \in Whitespace
         THEN <<" ">> \o CollapseWhitespace(LStrip(s))
         ELSE <<Head(s)>> \o CollapseWhitespace(Tail(s))

\* needle in haystack (substring test)
Contains(haystack, needle) ==
    \E i \in 0..(Len(haystack) - Len(needle)) :
        SubSeq(haystack, i + 1, i + Len(needle)) = needle

StartsWith(s, prefix) ==
    Len(s) >= Len(prefix) /\ SubSeq(s, 1, Len(prefix)) = prefix

-----------------------------------------------------------------------------
(* difflib.SequenceMatcher(None, a, b).ratio(), no junk (autojunk needs 200+) *)

\* length of the common run a[i..ahi], b[j..bhi]
RECURSIVE RunLen(_, _, _, _, _, _)
RunLen(a, b, i, j, ahi, bhi) ==
    IF i <= ahi /\ j <= bhi /\ a[i] = b[j]
    THEN 1 + RunLen(a, b, i + 1, j + 1, ahi, bhi)
    ELSE 0

\* find_longest_match: the longest block, of those the one starting earliest
\* in a, and of those the one starting earliest in b
FindLongestMatch(a, b, alo, ahi, blo, bhi) ==
    LET cand == {<<i, j>> : i \in alo..ahi, j \in blo..bhi}
        k(p) == RunLen(a, b, p[1], p[2], ahi, bhi)
        best == CHOOSE p \in cand :
                    \A q \in cand :
                        \/ k(p) > k(q)
                        \/ k(p) = k(q) /\ p[1] < q[1]
                        \/ k(p) = k(q) /\ p[1] = q[1] /\ p[2] <= q[2]
    IN  [i |-> best[1], j |-> best[2], size |-> k(best)]

\* sum of the sizes of get_matching_blocks
RECURSIVE MatchCount(_, _, _, _, _, _)
MatchCount(a, b, alo, ahi, blo, bhi) ==
    IF alo > ahi \/ blo > bhi THEN 0
    ELSE LET m == FindLongestMatch(a, b, alo, ahi, blo, bhi)
         IN  IF m.size = 0 THEN 0
             ELSE MatchCount(a, b, alo, m.i - 1, blo, m.j - 1)
                  + m.size
                  + MatchCount(a, b, m.i + m.size, ahi, m.j + m.size, bhi)

\* _calculate_similarity as the exact fraction num/den (0/1 when a text is
\* empty or None)
Similarity(text1, text2) ==
    IF ~Truthy(text1) \/ ~Truthy(text2) THEN [num |-> 0, den |-> 1]
    ELSE LET a == Lower(text1)
             b == Lower(text2)
         IN  [num |-> 2 * MatchCount(a, b, 1, Len(a), 1, Len(b)),
              den |-> Len(a) + Len(b)]

\* similarity < tenths / 10, the comparison against a literal such as 0.8
Below(sim, tenths) == 10 * sim.num < tenths * sim.den

-----------------------------------------------------------------------------
(* Business (models.py) *)

\* Business(name, address, city, state, zip_code) with every other field at
\* its dataclass default
NewBusiness(name, address, city, state, zip_code) ==
    [name |-> name, address |-> address, city |-> city, state |-> state,
     zip_code |-> zip_code,
     phone |-> None, website |-> None, email |-> None,
     category |-> None, cuisine_type |-> None, price_level |-> None,
     rating |-> <<>>, review_count |-> 0, reviews |-> <<>>,
     hours |-> None,
     yelp_id |-> None, yelp_url |-> None,
     google_place_id |-> None, google_url |-> None,
     features |-> <<>>, photos |-> <<>>,
     last_updated |-> 0,
     data_sources |-> <<>>,
     email_validated |-> FALSE, is_duplicate |-> FALSE]

\* SearchFilter() with every criterion at its default; city and radius are
\* fields no code of the processor reads
DefaultFilter ==
    [city |-> None, radius |-> <<>>, cuisine_type |-> None,
     min_rating |-> <<>>, max_rating |-> <<>>, min_reviews |-> <<>>,
     keywords |-> None, price_levels |-> <<>>, features |-> <<>>]

\* search_filter=None
NoFilter == [none |-> TRUE]

\* truth value of an Optional[float] or Optional[int]: None and 0 are false
TruthyNum(v) == v # <<>> /\ v[1] # 0

-----------------------------------------------------------------------------
(* Text normaliser *)

_clean_text(text) ==
    IF ~Truthy(text) THEN <<>>
    ELSE KeepChars(CollapseWhitespace(Strip(text)),
                   WordChars \cup Whitespace \cup AllowedPunct)

_clean_phone_number(phone) ==
    LET p == KeepChars(phone, Digits \cup {"+"})
    IN  IF Len(p) = 10
        THEN <<"(">> \o SubSeq(p, 1, 3) \o <<")", " ">> \o SubSeq(p, 4, 6)
             \o <<"-">> \o SubSeq(p, 7, 10)
        ELSE IF Len(p) = 11 /\ p[1] = "1"
        THEN <<"(">> \o SubSeq(p, 2, 4) \o <<")", " ">> \o SubSeq(p, 5, 7)
             \o <<"-">> \o SubSeq(p, 8, 11)
        ELSE p

_clean_zip_code(zip_code) ==
    LET starts == {i \in 1..(Len(zip_code) - 4) :
                      \A k \in 0..4 : zip_code[i + k] \in Digits}
    IN  IF starts = {} THEN zip_code
        ELSE LET i == CHOOSE m \in starts : \A n \in starts : m <= n
             IN  SubSeq(zip_code, i, i + 4)

_clean_url(url) ==
    LET u == Strip(url)
    IN  IF \/ StartsWith(u, <<"h", "t", "t", "p", ":", "/", "/">>)
           \/ StartsWith(u, <<"h", "t", "t", "p", "s", ":", "/", "/">>)
        THEN u
        ELSE <<"h", "t", "t", "p", "s", ":", "/", "/">> \o u

_clean_email(email) == Lower(Strip(email))

_clean_business_data(b) ==
    [b EXCEPT
        !.name = _clean_text(b.name),
        !.address = IF Truthy(b.address) THEN _clean_text(b.address) ELSE <<>>,
        !.city = IF Truthy(b.city) THEN _clean_text(b.city) ELSE <<>>,
        !.state = IF Truthy(b.state) THEN _clean_text(b.state) ELSE <<>>,
        !.zip_code = IF Truthy(b.zip_code) THEN _clean_zip_code(b.zip_code)
                     ELSE <<>>,
        !.phone = IF Truthy(b.phone) THEN _clean_phone_number(b.phone)
                  ELSE b.phone,
        !.website = IF Truthy(b.website) THEN _clean_url(b.website)
                    ELSE b.website,
        !.email = IF Truthy(b.email) THEN _clean_email(b.email) ELSE b.email,
        !.category = IF Truthy(b.category) THEN _clean_text(b.category)
                     ELSE None,
        !.cuisine_type = IF Truthy(b.cuisine_type)
                         THEN _clean_text(b.cuisine_type) ELSE None]

-----------------------------------------------------------------------------
(* Field validator *)

\* a validator that does not look at the rating
IsValidWhateverRating(b) ==
    /\ Truthy(b.name) /\ Len(Strip(b.name)) >= 2
    /\ (Truthy(b.address) \/ Truthy(b.city) \/ Truthy(b.state))
    /\ b.review_count >= 0

_is_valid_business(b) ==
    /\ Truthy(b.name) /\ Len(Strip(b.name)) >= 2
    /\ (Truthy(b.address) \/ Truthy(b.city) \/ Truthy(b.state))
    /\ (b.rating # <<>> => (0 <= b.rating[1] /\ b.rating[1] <= 5))
    /\ b.review_count >= 0

\* the guard of validate_and_clean before cleaning: a name that is not blank
HasName(b) == Truthy(b.name) /\ Strip(b.name) # <<>>

-----------------------------------------------------------------------------
(* Filter engine *)

\* a filter that also compares the city of the record with the city criterion
PassesFiltersInCity(b, f) ==
    /\ (Truthy(f.city) => Lower(b.city) = Lower(f.city))
    /\ ~(/\ TruthyNum(f.min_rating) /\ TruthyNum(b.rating)
         /\ b.rating[1] < f.min_rating[1])
    /\ ~(/\ TruthyNum(f.max_rating) /\ TruthyNum(b.rating)
         /\ b.rating[1] > f.max_rating[1])
    /\ ~(TruthyNum(f.min_reviews) /\ b.review_count < f.min_reviews[1])
    /\ (Truthy(f.cuisine_type) =>
            /\ Truthy(b.cuisine_type)
            /\ Contains(Lower(b.cuisine_type), Lower(f.cuisine_type)))
    /\ (Truthy(f.keywords) =>
            Contains(Lower(Str(b.name) \o <<" ">> \o Str(b.category)
                           \o <<" ">> \o Str(b.cuisine_type)),
                     Lower(f.keywords)))
    /\ (f.price_levels # <<>> => b.price_level \in Range(f.price_levels))
    /\ (f.features # <<>> =>
            \A i \in 1..Len(f.features) :
                Lower(f.features[i]) \in {Lower(x) : x \in Range(b.features)})

\* a filter that lets a record without cuisine_type pass the cuisine criterion
PassesFiltersLenient(b, f) ==
    /\ ~(/\ TruthyNum(f.min_rating) /\ TruthyNum(b.rating)
         /\ b.rating[1] < f.min_rating[1])
    /\ ~(/\ TruthyNum(f.max_rating) /\ TruthyNum(b.rating)
         /\ b.rating[1] > f.max_rating[1])
    /\ ~(TruthyNum(f.min_reviews) /\ b.review_count < f.min_reviews[1])
    /\ ((Truthy(f.cuisine_type) /\ Truthy(b.cuisine_type)) =>
            Contains(Lower(b.cuisine_type), Lower(f.cuisine_type)))
    /\ (Truthy(f.keywords) =>
            Contains(Lower(Str(b.name) \o <<" ">> \o Str(b.category)
                           \o <<" ">> \o Str(b.cuisine_type)),
                     Lower(f.keywords)))
    /\ (f.price_levels # <<>> => b.price_level \in Range(f.price_levels))
    /\ (f.features # <<>> =>
            \A i \in 1..Len(f.features) :
                Lower(f.features[i]) \in {Lower(x) : x \in Range(b.features)})

_passes_filters(b, f) ==
    /\ ~(/\ TruthyNum(f.min_rating) /\ TruthyNum(b.rating)
         /\ b.rating[1] < f.min_rating[1])
    /\ ~(/\ TruthyNum(f.max_rating) /\ TruthyNum(b.rating)
         /\ b.rating[1] > f.max_rating[1])
    /\ ~(TruthyNum(f.min_reviews) /\ b.review_count < f.min_reviews[1])
    /\ (Truthy(f.cuisine_type) =>
            /\ Truthy(b.cuisine_type)
            /\ Contains(Lower(b.cuisine_type), Lower(f.cuisine_type)))
    /\ (Truthy(f.keywords) =>
            Contains(Lower(Str(b.name) \o <<" ">> \o Str(b.category)
                           \o <<" ">> \o Str(b.cuisine_type)),
                     Lower(f.keywords)))
    /\ (f.price_levels # <<>> => b.price_level \in Range(f.price_levels))
    /\ (f.features # <<>> =>
            \A i \in 1..Len(f.features) :
                Lower(f.features[i]) \in {Lower(x) : x \in Range(b.features)})

-----------------------------------------------------------------------------
(* Deduplication engine *)

\* hashlib.md5(...).hexdigest() is taken to be injective: the signature is the
\* text that is hashed
_create_business_signature(b) ==
    LET name == IF Truthy(b.name) THEN KeepChars(Lower(b.name), WordChars)
                ELSE <<>>
        address == IF Truthy(b.address)
                   THEN KeepChars(Lower(b.address), WordChars) ELSE <<>>
        city == IF Truthy(b.city) THEN Lower(b.city) ELSE <<>>
    IN  name \o <<"_">> \o address \o <<"_">> \o city

\* an _are_duplicates that asks 0.80 of the address as well
AreDuplicatesStrictAddress(business1, business2) ==
    /\ ~Below(Similarity(business1.name, business2.name), 8)
    /\ (Truthy(business1.address) /\ Truthy(business2.address)) =>
            ~Below(Similarity(business1.address, business2.address), 8)
    /\ (Truthy(business1.city) /\ Truthy(business2.city)) =>
            ~Below(Similarity(business1.city, business2.city), 8)

_are_duplicates(business1, business2) ==
    IF Below(Similarity(business1.name, business2.name), 8) THEN FALSE
    ELSE IF /\ Truthy(business1.address) /\ Truthy(business2.address)
            /\ Below(Similarity(business1.address, business2.address), 7)
    THEN FALSE
    ELSE IF /\ Truthy(business1.city) /\ Truthy(business2.city)
            /\ Below(Similarity(business1.city, business2.city), 8)
    THEN FALSE
    ELSE TRUE

\* for x in extra: if x not in base: base.append(x)
RECURSIVE AppendMissing(_, _)
AppendMissing(base, extra) ==
    IF extra = <<>> THEN base
    ELSE AppendMissing(IF Head(extra) \in Range(base) THEN base
                       ELSE Append(base, Head(extra)),
                       Tail(extra))

\* a merge that takes every contact field the duplicate has
MergeContactPreferDuplicate(primary, duplicate) ==
    [primary EXCEPT
        !.phone = IF Truthy(duplicate.phone) THEN duplicate.phone ELSE @,
        !.website = IF Truthy(duplicate.website) THEN duplicate.website
                    ELSE @,
        !.email = IF Truthy(duplicate.email) THEN duplicate.email ELSE @]

\* "Merge contact information": fill gaps only
MergeContact(primary, duplicate) ==
    [primary EXCEPT
        !.phone = IF ~Truthy(primary.phone) /\ Truthy(duplicate.phone)
                  THEN duplicate.phone ELSE @,
        !.website = IF ~Truthy(primary.website) /\ Truthy(duplicate.website)
                    THEN duplicate.website ELSE @,
        !.email = IF ~Truthy(primary.email) /\ Truthy(duplicate.email)
                  THEN duplicate.email ELSE @]

\* "Merge platform URLs": the id of a platform follows its URL
MergePlatformUrls(primary, duplicate) ==
    LET fill_yelp == Truthy(duplicate.yelp_url) /\ ~Truthy(primary.yelp_url)
        fill_google == Truthy(duplicate.google_url)
                       /\ ~Truthy(primary.google_url)
    IN  [primary EXCEPT
            !.yelp_url = IF fill_yelp THEN duplicate.yelp_url ELSE @,
            !.yelp_id = IF fill_yelp THEN duplicate.yelp_id ELSE @,
            !.google_url = IF fill_google THEN duplicate.google_url ELSE @,
            !.google_place_id = IF fill_google THEN duplicate.google_place_id
                                ELSE @]

\* a merge that appends every source of the duplicate
MergeSourcesAppendAll(primary, duplicate) ==
    [primary EXCEPT !.data_sources = @ \o duplicate.data_sources]

\* "Merge data sources"
MergeSources(primary, duplicate) ==
    [primary EXCEPT !.data_sources = AppendMissing(@, duplicate.data_sources)]

\* "Use better rating if available", "Use higher review count"
MergeRating(primary, duplicate) ==
    [primary EXCEPT
        !.rating = IF /\ TruthyNum(duplicate.rating)
                      /\ \/ ~TruthyNum(primary.rating)
                         \/ duplicate.review_count > primary.review_count
                   THEN duplicate.rating ELSE @,
        !.review_count = IF duplicate.review_count > primary.review_count
                         THEN duplicate.review_count ELSE @]

\* "Merge features", "Merge photos"
MergeLists(primary, duplicate) ==
    [primary EXCEPT
        !.features = AppendMissing(@, duplicate.features),
        !.photos = AppendMissing(@, duplicate.photos)]

\* a merge that also adopts the longer of the two names, as the detail merge
\* of the scraper manager does
MergeAdoptingLongerName(primary, duplicate) ==
    [MergeLists(MergeRating(MergeSources(MergePlatformUrls(
        MergeContact(primary, duplicate), duplicate), duplicate), duplicate),
        duplicate)
     EXCEPT !.name = IF Len(duplicate.name) > Len(primary.name)
                     THEN duplicate.name ELSE @]

\* the primary after _merge_duplicate_data(primary, duplicate)
_merge_duplicate_data(primary, duplicate) ==
    MergeLists(MergeRating(MergeSources(MergePlatformUrls(
        MergeContact(primary, duplicate), duplicate), duplicate), duplicate),
        duplicate)

\* a scan that keeps the last survivor that matches
LastMatch(matching) == CHOOSE k \in matching : \A m \in matching : k >= m

\* a duplicate left without its flag
MarkNothing(b) == b

\* business.is_duplicate = True
MarkDuplicate(b) == [b EXCEPT !.is_duplicate = TRUE]

\* positions in the survivor list whose record the candidate duplicates
MatchingSurvivors(h, survivors, c) ==
    {k \in 1..Len(survivors) : _are_duplicates(h[c], h[survivors[k]])}

\* the scan of remove_duplicates stops at the first survivor that matches
FirstMatch(matching) == CHOOSE k \in matching : \A m \in matching : k <= m

\* the record of an iteration: the candidate, how it ended ("signature",
\* "similar", "unique"), the survivor it was merged into (0: none) and the
\* heap before the iteration
Step(c, kind, into, before) ==
    [cand |-> c, kind |-> kind, into |-> into, before |-> before]

NoStep == [cand |-> 0, kind |-> "none", into |-> 0, before |-> <<>>]

\* no pure function has been applied
NoReturn == [called |-> FALSE]

\* the call of remove_duplicates: unique_businesses = [], seen_signatures = set()
EnterDedup(list) ==
    /\ unique_businesses' = <<>>
    /\ seen_signatures' = {}
    /\ idx' = 1
    /\ dedup_in' = list
    /\ last_step' = NoStep

\* one iteration of the loop of remove_duplicates
DedupStep ==
    /\ pc = "dedup"
    /\ idx <= Len(businesses)
    /\ LET c == businesses[idx]
           signature == _create_business_signature(heap[c])
           matching == MatchingSurvivors(heap, unique_businesses, c)
       IN  IF signature \in seen_signatures
           THEN /\ heap' = [heap EXCEPT ![c] = MarkDuplicate(heap[c])]
                /\ last_step' = Step(c, "signature", 0, heap)
                /\ UNCHANGED <<unique_businesses, seen_signatures, merged>>
           ELSE IF matching # {}
           THEN LET e == unique_businesses[FirstMatch(matching)]
                IN  /\ heap' = [heap EXCEPT
                                  ![c] = MarkDuplicate(heap[c]),
                                  ![e] = _merge_duplicate_data(heap[e],
                                             MarkDuplicate(heap[c]))]
                    /\ merged' = [merged EXCEPT
                                    ![e] = @ \cup Range(heap[c].data_sources)]
                    /\ last_step' = Step(c, "similar", e, heap)
                    /\ UNCHANGED <<unique_businesses, seen_signatures>>
           ELSE /\ seen_signatures' = seen_signatures \cup {signature}
                /\ unique_businesses' = Append(unique_businesses, c)
                /\ last_step' = Step(c, "unique", 0, heap)
                /\ UNCHANGED <<heap, merged>>
    /\ idx' = idx + 1
    /\ UNCHANGED <<schedulerVars, proxyVars, input, businesses, entry, pc, search_filter, email_enabled,
                   run, call, heap0, result1, heap1, dedup_in, ret>>

\* what the caller keeps of the first call: a snapshot of its result
Snapshot(list, h) ==
    /\ result1' = IF run = 1 THEN list ELSE result1
    /\ heap1' = IF run = 1 THEN h ELSE heap1

\* remove_duplicates called on its own returns unique_businesses
DedupReturn ==
    /\ entry = "remove_duplicates"
    /\ pc = "dedup"
    /\ idx > Len(businesses)
    /\ businesses' = unique_businesses
    /\ pc' = "done"
    /\ Snapshot(unique_businesses, heap)
    /\ UNCHANGED <<schedulerVars, proxyVars, merged, heap, input, unique_businesses, seen_signatures, idx,
                   entry, search_filter, email_enabled, run, call, heap0,
                   dedup_in, last_step, ret>>

\* remove_duplicates(remove_duplicates(L)): the result is deduplicated again
DedupAgain ==
    /\ entry = "remove_duplicates"
    /\ pc = "done"
    /\ call = "first"
    /\ run' = run + 1
    /\ call' = "output"
    /\ input' = businesses
    /\ pc' = "dedup"
    /\ EnterDedup(businesses)
    /\ UNCHANGED <<schedulerVars, proxyVars, merged, heap, businesses, entry, search_filter, email_enabled,
                   heap0, result1, heap1, ret>>

-----------------------------------------------------------------------------
(* Inputs of remove_duplicates *)

\* name, address, city of the listings the scrapers hand over: near-identical
\* names ("ab", "abc", "bc"), the same name written with punctuation or in
\* capitals ("a.b", "AB"), a listing without address and city, one whose
\* address differs only in punctuation ("x.y." for "xy": the same signature,
\* similarity 4/6) and one in another city
Identities ==
    { <<<<"a", "b", "c">>, <<"x", "y">>, <<"p">>>>,
      <<<<"a", "b">>, <<"x", "y">>, <<"p">>>>,
      <<<<"a", ".", "b">>, <<"x", "y">>, <<"p">>>>,
      <<<<"b", "c">>, <<"x", "y">>, <<"p">>>>,
      <<<<"a", "b", "c">>, <<>>, <<>>>>,
      <<<<"a", "b", "c">>, <<"x", ".", "y", ".">>, <<"p">>>>,
      <<<<"a", "b", "c">>, <<"x", "y">>, <<"q">>>>,
      <<<<"A", "B">>, <<"x", "y">>, <<"P">>>> }

\* Review(id=..., platform=...): the fields of a review the merges read
Review(id, platform) == [id |-> id, platform |-> platform]

\* a listing as the scraper of one platform fills it in
FromPlatform(b, platform) ==
    IF platform = "yelp"
    THEN [b EXCEPT !.data_sources = <<"yelp">>,
                   !.yelp_id = <<"y", "1">>,
                   !.yelp_url = <<"y", "/", "1">>,
                   !.features = <<<<"d">>>>,
                   !.rating = <<4>>,
                   !.review_count = 10,
                   !.phone = <<"5", "5", "5">>,
                   !.reviews = <<Review(<<"r", "1">>, "yelp")>>,
                   !.hours = <<"9", "-", "5">>,
                   !.last_updated = 1]
    ELSE [b EXCEPT !.data_sources = <<"google">>,
                   !.google_place_id = <<"g", "1">>,
                   !.google_url = <<"g", "/", "1">>,
                   !.features = <<<<"t">>>>,
                   !.rating = <<5>>,
                   !.review_count = 20,
                   !.website = <<"w", ".", "c">>,
                   !.reviews = <<Review(<<"r", "1">>, "google"),
                                 Review(<<"r", "2">>, "google")>>,
                   !.last_updated = 2]

Platforms == {"yelp", "google"}

DedupUniverse ==
    {FromPlatform(NewBusiness(i[1], i[2], i[3], <<>>, <<>>), p) :
        i \in Identities, p \in Platforms}

\* the lists of at most n distinct objects with field values from universe
Heaps(universe, n) == UNION {[1..m -> universe] : m \in 0..n}

ListOf(h) == [k \in 1..Len(h) |-> k]

-----------------------------------------------------------------------------
(* remove_duplicates applied to a list, and again to its result *)

InitDedup ==
    /\ heap \in Heaps(DedupUniverse, MaxRecords)
    /\ heap0 = heap
    /\ input = ListOf(heap)
    /\ businesses = input
    /\ unique_businesses = <<>>
    /\ seen_signatures = {}
    /\ idx = 1
    /\ dedup_in = input
    /\ last_step = NoStep
    /\ entry = "remove_duplicates"
    /\ pc = "dedup"
    /\ search_filter = NoFilter
    /\ email_enabled = FALSE
    /\ run = 1
    /\ call = "first"
    /\ result1 = <<>>
    /\ heap1 = <<>>
    /\ ret = NoReturn
    /\ merged = [id \in DOMAIN heap |-> {}]
    /\ NoScheduler
    /\ NoProxyManager

NextDedup == DedupStep \/ DedupReturn \/ DedupAgain

SpecDedup == InitDedup /\ [][NextDedup]_vars

-----------------------------------------------------------------------------
(* _are_duplicates applied to a pair of records *)

\* texts with similarity 6/7 ("abc", "abcd"), 8/9 ("abcd", "abcde"), 6/8
\* ("abc", "abcde": between the two thresholds), 1 up to case ("abc", "ABC"),
\* 0 ("xz") and the empty text
PairTexts ==
    { <<>>,
      <<"a", "b", "c">>,
      <<"A", "B", "C">>,
      <<"a", "b", "c", "d">>,
      <<"a", "b", "c", "d", "e">>,
      <<"x", "z">> }

PairUniverse ==
    {NewBusiness(n, a, c, <<>>, <<>>) :
        n \in PairTexts, a \in PairTexts \cup {None}, c \in PairTexts}

InitPair ==
    /\ heap \in [1..2 -> PairUniverse]
    /\ heap0 = heap
    /\ input = <<1, 2>>
    /\ businesses = input
    /\ unique_businesses = <<>>
    /\ seen_signatures = {}
    /\ idx = 1
    /\ dedup_in = <<>>
    /\ last_step = NoStep
    /\ entry = "_are_duplicates"
    /\ pc = "call"
    /\ search_filter = NoFilter
    /\ email_enabled = FALSE
    /\ run = 1
    /\ call = "first"
    /\ result1 = <<>>
    /\ heap1 = <<>>
    /\ ret = NoReturn
    /\ merged = [id \in DOMAIN heap |-> {}]
    /\ NoScheduler
    /\ NoProxyManager

\* ret = self._are_duplicates(business1, business2)
CallAreDuplicates ==
    /\ entry = "_are_duplicates"
    /\ pc = "call"
    /\ ret' = [called |-> TRUE, value |-> _are_duplicates(heap[1], heap[2])]
    /\ pc' = "done"
    /\ UNCHANGED <<schedulerVars, proxyVars, merged, heap, input, businesses, unique_businesses, seen_signatures,
                   idx, entry, search_filter, email_enabled, run, call, heap0,
                   result1, heap1, dedup_in, last_step>>

NextPair == CallAreDuplicates

SpecPair == InitPair /\ [][NextPair]_vars

-----------------------------------------------------------------------------
(* Email validation *)

\* email_validator.validate_email accepts local@domain with a dotted domain;
\* deliverability look-ups are taken to succeed
EmailValid(email) ==
    LET ats == {i \in 1..Len(email) : email[i] = "@"}
    IN  /\ Cardinality(ats) = 1
        /\ LET at == CHOOSE i \in ats : TRUE
               local == SubSeq(email, 1, at - 1)
               domain == SubSeq(email, at + 1, Len(email))
           IN  /\ local # <<>>
               /\ Range(local) \subseteq WordChars \cup {".", "-", "+"}
               /\ local[1] # "." /\ local[Len(local)] # "."
               /\ Len(domain) >= 3
               /\ Range(domain) \subseteq
                      UpperCase \cup LowerCase \cup Digits \cup {".", "-"}
               /\ "." \in Range(SubSeq(domain, 2, Len(domain) - 1))
               /\ domain[1] # "." /\ domain[Len(domain)] # "."

\* valid.email: the domain in lower case
NormalizedEmail(email) ==
    LET at == CHOOSE i \in 1..Len(email) : email[i] = "@"
    IN  SubSeq(email, 1, at) \o Lower(SubSeq(email, at + 1, Len(email)))

\* a validation that leaves an email that does not parse where it is
ValidatedEmailKeepingInvalid(b) ==
    IF ~Truthy(b.email) THEN b
    ELSE IF EmailValid(b.email)
    THEN [b EXCEPT !.email = NormalizedEmail(b.email),
                   !.email_validated = TRUE]
    ELSE [b EXCEPT !.email_validated = FALSE]

\* the record after the body of the loop of validate_emails
ValidatedEmail(b) ==
    IF ~Truthy(b.email) THEN b
    ELSE IF EmailValid(b.email)
    THEN [b EXCEPT !.email = NormalizedEmail(b.email),
                   !.email_validated = TRUE]
    ELSE [b EXCEPT !.email = None, !.email_validated = FALSE]

\* the heap after validate_emails(list), which returns the list it was given
validate_emails(h, list) ==
    [id \in DOMAIN h |-> IF id \in Range(list) THEN ValidatedEmail(h[id])
                         ELSE h[id]]

-----------------------------------------------------------------------------
(* Pipeline orchestrator: process_businesses *)

\* the list apply_filters returns
apply_filters(h, list, f) ==
    SelectSeq(list, LAMBDA id : _passes_filters(h[id], f))

\* validate_and_clean: a record with a name is cleaned in place, then kept if
\* it is valid
Kept(h, id) ==
    HasName(h[id]) /\ _is_valid_business(_clean_business_data(h[id]))

validate_and_clean(h, list) ==
    [heap |-> [id \in DOMAIN h |->
                  IF id \in Range(list) /\ HasName(h[id])
                  THEN _clean_business_data(h[id]) ELSE h[id]],
     list |-> SelectSeq(list, LAMBDA id : Kept(h, id))]

\* an orchestrator that validates emails before it removes duplicates
StageAfterEmailFirst(stage) ==
    CASE stage = "call" -> "filter"
      [] stage = "filter" -> "validate"
      [] stage = "validate" -> "email"
      [] stage = "email" -> "dedup"
      [] stage = "dedup" -> "done"

\* the order of the steps of process_businesses
StageAfter(stage) ==
    CASE stage = "call" -> "filter"
      [] stage = "filter" -> "validate"
      [] stage = "validate" -> "dedup"
      [] stage = "dedup" -> "email"
      [] stage = "email" -> "done"

\* the end of a step: the next one starts on the list and heap this one leaves
Advance(stage, list, h) ==
    /\ pc' = StageAfter(stage)
    /\ businesses' = list
    /\ heap' = h
    /\ IF StageAfter(stage) = "dedup"
       THEN EnterDedup(list)
       ELSE UNCHANGED <<unique_businesses, seen_signatures, idx, dedup_in,
                        last_step>>
    /\ IF StageAfter(stage) = "done"
       THEN Snapshot(list, h)
       ELSE UNCHANGED <<result1, heap1>>

\* Step 1: apply filters, if a filter is given
ApplyFilters ==
    /\ entry = "process_businesses"
    /\ pc = "filter"
    /\ Advance("filter",
               IF search_filter = NoFilter THEN businesses
               ELSE apply_filters(heap, businesses, search_filter),
               heap)
    /\ UNCHANGED <<schedulerVars, proxyVars, merged, input, entry, search_filter, email_enabled, run, call,
                   heap0, ret>>

\* Step 2: validate and clean data
ValidateAndClean ==
    /\ entry = "process_businesses"
    /\ pc = "validate"
    /\ LET r == validate_and_clean(heap, businesses)
       IN  Advance("validate", r.list, r.heap)
    /\ UNCHANGED <<schedulerVars, proxyVars, merged, input, entry, search_filter, email_enabled, run, call,
                   heap0, ret>>

\* Step 3: remove duplicates (the loop is DedupStep) returns the survivors
ProcessDedupReturn ==
    /\ entry = "process_businesses"
    /\ pc = "dedup"
    /\ idx > Len(businesses)
    /\ Advance("dedup", unique_businesses, heap)
    /\ UNCHANGED <<schedulerVars, proxyVars, merged, input, entry, search_filter, email_enabled, run, call,
                   heap0, ret>>

\* Step 4: validate emails if enabled
ValidateEmails ==
    /\ entry = "process_businesses"
    /\ pc = "email"
    /\ Advance("email", businesses,
               IF email_enabled THEN validate_emails(heap, businesses)
               ELSE heap)
    /\ UNCHANGED <<schedulerVars, proxyVars, merged, input, entry, search_filter, email_enabled, run, call,
                   heap0, ret>>

\* process_businesses(process_businesses(L, f), f)
ProcessOutputAgain ==
    /\ entry = "process_businesses"
    /\ pc = "done"
    /\ call = "first"
    /\ run' = run + 1
    /\ call' = "output"
    /\ input' = businesses
    /\ Advance("call", businesses, heap)
    /\ UNCHANGED <<schedulerVars, proxyVars, merged, entry, search_filter, email_enabled, heap0, ret>>

\* process_businesses(L, f) once more, on the list of the first call
ProcessInputAgain ==
    /\ entry = "process_businesses"
    /\ pc = "done"
    /\ call = "first"
    /\ run' = run + 1
    /\ call' = "input"
    /\ input' = ListOf(heap0)
    /\ Advance("call", ListOf(heap0), heap)
    /\ UNCHANGED <<schedulerVars, proxyVars, merged, entry, search_filter, email_enabled, heap0, ret>>

-----------------------------------------------------------------------------
(* Inputs of process_businesses *)

Listing(name, platform) ==
    FromPlatform(NewBusiness(name, <<"x", "y">>, <<"p">>, <<>>, <<>>), platform)

\* raw listings: a clean one with a valid email, a near-duplicate with an
\* email that does not parse, the first one again from the other platform
\* with an untrimmed upper-case email, a name and a cuisine with a character
\* the cleaner removes, and records the validator rejects (a blank name, a
\* rating out of range, a negative review count)
PipeUniverse ==
    { [Listing(<<"a", "b", "c">>, "yelp") EXCEPT
            !.cuisine_type = <<"a", "b">>,
            !.email = <<"a", "@", "b", ".", "c">>],
      [Listing(<<"a", "b">>, "google") EXCEPT !.email = <<"a", "b">>],
      [Listing(<<"a", "b", "c">>, "google") EXCEPT
            !.email = <<" ", "A", "@", "B", ".", "C">>],
      Listing(<<"a", "b", " ", "@">>, "yelp"),
      [Listing(<<"b", "c">>, "google") EXCEPT
            !.cuisine_type = <<"a", "@", "b">>],
      Listing(<<" ">>, "google"),
      [Listing(<<"a", "b", "c">>, "google") EXCEPT !.rating = <<6>>],
      [Listing(<<"a", "b">>, "yelp") EXCEPT !.review_count = -1] }

\* no filter, a cuisine filter and a rating filter
PipeFilters ==
    { NoFilter,
      [DefaultFilter EXCEPT !.cuisine_type = <<"a", "b">>],
      [DefaultFilter EXCEPT !.min_rating = <<5>>] }

InitPipe ==
    /\ heap \in Heaps(PipeUniverse, MaxBatch)
    /\ heap0 = heap
    /\ input = ListOf(heap)
    /\ businesses = input
    /\ unique_businesses = <<>>
    /\ seen_signatures = {}
    /\ idx = 1
    /\ dedup_in = <<>>
    /\ last_step = NoStep
    /\ entry = "process_businesses"
    /\ pc = StageAfter("call")
    /\ search_filter \in PipeFilters
    /\ email_enabled \in BOOLEAN
    /\ run = 1
    /\ call = "first"
    /\ result1 = <<>>
    /\ heap1 = <<>>
    /\ ret = NoReturn
    /\ merged = [id \in DOMAIN heap |-> {}]
    /\ NoScheduler
    /\ NoProxyManager

NextPipe ==
    \/ ApplyFilters
    \/ ValidateAndClean
    \/ DedupStep
    \/ ProcessDedupReturn
    \/ ValidateEmails
    \/ ProcessOutputAgain
    \/ ProcessInputAgain

SpecPipe == InitPipe /\ [][NextPipe]_vars

-----------------------------------------------------------------------------
(* A method of the processor called on its own *)

\* the state before the call of a method on the list of every object
CallInit(method) ==
    /\ heap0 = heap
    /\ input = ListOf(heap)
    /\ businesses = input
    /\ unique_businesses = <<>>
    /\ seen_signatures = {}
    /\ idx = 1
    /\ dedup_in = <<>>
    /\ last_step = NoStep
    /\ entry = method
    /\ pc = "call"
    /\ run = 1
    /\ call = "first"
    /\ result1 = <<>>
    /\ heap1 = <<>>
    /\ ret = NoReturn
    /\ merged = [id \in DOMAIN heap |-> {}]
    /\ NoScheduler
    /\ NoProxyManager

-----------------------------------------------------------------------------
(* apply_filters applied to a list *)

\* a listing with the fields the filter reads
FilterRecord(rating, cuisine_type, price_level, features) ==
    [NewBusiness(<<"a", "b">>, <<"x", "y">>, <<"p">>, <<>>, <<>>) EXCEPT
        !.rating = rating, !.cuisine_type = cuisine_type,
        !.price_level = price_level, !.features = features]

\* listings without a rating and with ratings 0, 3 and 5; listings with and
\* without cuisine, price level and features, in mixed case
FilterUniverse ==
    {FilterRecord(r, None, None, <<>>) : r \in {<<>>, <<0>>, <<3>>, <<5>>}}
    \cup
    {FilterRecord(<<3>>, c, p, f) :
        c \in {None, <<"A", "b">>, <<"c">>},
        p \in {None, <<"$">>, <<"$", "$", "$">>},
        f \in {<<>>, <<<<"D">>>>, <<<<"d">>, <<"t">>>>}}

\* filters on the rating alone (a bound absent, 0 or 4), filters on cuisine,
\* price levels and features alone, one on everything, and filters that name
\* the city of the listings ("p") or another one ("q"), with and without a
\* radius
FilterFilters ==
    {[DefaultFilter EXCEPT !.min_rating = lo, !.max_rating = hi] :
        lo \in {<<>>, <<0>>, <<4>>}, hi \in {<<>>, <<0>>, <<4>>}}
    \cup
    {[DefaultFilter EXCEPT !.cuisine_type = c, !.price_levels = p,
                           !.features = f] :
        c \in {None, <<>>, <<"a", "B">>},
        p \in {<<>>, <<<<"$">>, <<"$", "$">>>>},
        f \in {<<>>, <<<<"D">>>>, <<<<"d">>, <<"T">>>>}}
    \cup
    {[DefaultFilter EXCEPT !.min_rating = <<4>>, !.cuisine_type = <<"b">>,
                           !.features = <<<<"t">>>>]}
    \cup
    {[DefaultFilter EXCEPT !.city = c, !.radius = r, !.min_rating = lo,
                           !.cuisine_type = ct] :
        c \in {<<"p">>, <<"q">>}, r \in {<<>>, <<5>>},
        lo \in {<<>>, <<4>>}, ct \in {None, <<"a", "B">>}}

InitFilter ==
    /\ heap \in [1..2 -> FilterUniverse]
    /\ search_filter \in FilterFilters
    /\ email_enabled = FALSE
    /\ CallInit("apply_filters")

\* businesses = self.apply_filters(businesses, search_filter)
CallApplyFilters ==
    /\ entry = "apply_filters"
    /\ pc = "call"
    /\ businesses' = apply_filters(heap, businesses, search_filter)
    /\ pc' = "done"
    /\ UNCHANGED <<schedulerVars, proxyVars, merged, heap, input, unique_businesses, seen_signatures, idx,
                   entry, search_filter, email_enabled, run, call, heap0,
                   result1, heap1, dedup_in, last_step, ret>>

NextFilter == CallApplyFilters

SpecFilter == InitFilter /\ [][NextFilter]_vars

-----------------------------------------------------------------------------
(* validate_and_clean applied to a list *)

\* names: clean ones of two and of one character, names with a character the
\* cleaner removes ("a @", "ab @", "@@"), a blank and an empty one
ValidateNames ==
    { <<"a", "b">>, <<"a">>, <<"a", " ", "@">>, <<"a", "b", " ", "@">>,
      <<"@", "@">>, <<" ">>, <<>> }

\* address, city, state: all three, none, one of them, and values that
\* cleaning empties ("@", " ")
ValidateLocations ==
    { <<<<"x", "y">>, <<"p">>, <<"s">>>>,
      <<<<>>, <<>>, <<>>>>,
      <<<<"@">>, <<" ">>, <<>>>>,
      <<<<>>, <<"p">>, <<>>>>,
      <<<<>>, <<>>, <<"s">>>> }

\* rating and review_count: no rating, the ends of the range, ratings out of
\* range, a negative count
ValidateCounts ==
    { <<<<>>, 0>>, <<<<0>>, 0>>, <<<<5>>, 3>>, <<<<6>>, 0>>, <<<<-1>>, 0>>,
      <<<<3>>, -1>> }

ValidateUniverse ==
    {[NewBusiness(n, l[1], l[2], l[3], <<>>) EXCEPT
            !.rating = c[1], !.review_count = c[2]] :
        n \in ValidateNames, l \in ValidateLocations, c \in ValidateCounts}

InitValidate ==
    /\ heap \in [1..2 -> ValidateUniverse]
    /\ search_filter = NoFilter
    /\ email_enabled = FALSE
    /\ CallInit("validate_and_clean")

\* businesses = self.validate_and_clean(businesses)
CallValidateAndClean ==
    /\ entry = "validate_and_clean"
    /\ pc = "call"
    /\ LET r == validate_and_clean(heap, businesses)
       IN  /\ businesses' = r.list
           /\ heap' = r.heap
    /\ pc' = "done"
    /\ UNCHANGED <<schedulerVars, proxyVars, merged, input, unique_businesses, seen_signatures, idx, entry,
                   search_filter, email_enabled, run, call, heap0, result1,
                   heap1, dedup_in, last_step, ret>>

NextValidate == CallValidateAndClean

SpecValidate == InitValidate /\ [][NextValidate]_vars

-----------------------------------------------------------------------------
(* validate_emails applied to a list *)

\* no email, an empty one, emails that parse (one with an upper-case domain)
\* and emails that do not (no "@", no dotted domain, a leading blank, two "@")
EmailTexts ==
    { None, <<>>,
      <<"a", "@", "b", ".", "c">>,
      <<"A", "@", "B", ".", "C">>,
      <<"a", "b">>,
      <<"a", "@", "b">>,
      <<" ", "a", "@", "b", ".", "c">>,
      <<"a", "@", "@", "b", ".", "c">> }

EmailUniverse ==
    {[NewBusiness(<<"a", "b">>, <<"x", "y">>, <<"p">>, <<>>, <<>>) EXCEPT
            !.email = e, !.email_validated = v] :
        e \in EmailTexts, v \in BOOLEAN}

InitEmail ==
    /\ heap \in [1..2 -> EmailUniverse]
    /\ search_filter = NoFilter
    /\ email_enabled = TRUE
    /\ CallInit("validate_emails")

\* businesses = self.validate_emails(businesses)
CallValidateEmails ==
    /\ entry = "validate_emails"
    /\ pc = "call"
    /\ heap' = validate_emails(heap, businesses)
    /\ pc' = "done"
    /\ UNCHANGED <<schedulerVars, proxyVars, merged, input, businesses, unique_businesses, seen_signatures, idx,
                   entry, search_filter, email_enabled, run, call, heap0,
                   result1, heap1, dedup_in, last_step, ret>>

NextEmail == CallValidateEmails

SpecEmail == InitEmail /\ [][NextEmail]_vars

-----------------------------------------------------------------------------
(* _merge_duplicate_data applied to a pair of records *)

MergeRecord == NewBusiness(<<"a", "b">>, <<"x", "y">>, <<"p">>, <<>>, <<>>)

\* records that differ in their contact fields, in the identifiers and URLs
\* of the platforms, or in rating and review count (a rating absent, 0, 3, 5)
MergeUniverse ==
    {[MergeRecord EXCEPT !.phone = ph, !.website = w, !.email = e] :
        ph \in {None, <<>>, <<"5">>, <<"6">>},
        w \in {None, <<"w">>, <<"v">>},
        e \in {None, <<"e">>, <<"f">>}}
    \cup
    {[MergeRecord EXCEPT !.yelp_id = yi, !.yelp_url = yu,
                         !.google_place_id = gi, !.google_url = gu] :
        yi \in {None, <<"y", "1">>, <<"y", "2">>},
        yu \in {None, <<"y", "/", "1">>, <<"y", "/", "2">>},
        gi \in {None, <<"g", "1">>},
        gu \in {None, <<"g", "/", "1">>}}
    \cup
    {[MergeRecord EXCEPT !.rating = r, !.review_count = n] :
        r \in {<<>>, <<0>>, <<3>>, <<5>>}, n \in {0, 10, 20}}

InitMerge ==
    /\ heap \in [1..2 -> MergeUniverse]
    /\ search_filter = NoFilter
    /\ email_enabled = FALSE
    /\ CallInit("_merge_duplicate_data")

\* self._merge_duplicate_data(primary, duplicate): the primary is changed in
\* place
CallMergeDuplicateData ==
    /\ entry = "_merge_duplicate_data"
    /\ pc = "call"
    /\ heap' = [heap EXCEPT ![1] = _merge_duplicate_data(heap[1], heap[2])]
    /\ pc' = "done"
    /\ UNCHANGED <<schedulerVars, proxyVars, merged, input, businesses, unique_businesses, seen_signatures, idx,
                   entry, search_filter, email_enabled, run, call, heap0,
                   result1, heap1, dedup_in, last_step, ret>>

NextMerge == CallMergeDuplicateData

SpecMerge == InitMerge /\ [][NextMerge]_vars

-----------------------------------------------------------------------------
(* Detail merge: ScraperManager._merge_business_data (scraper_manager.py) *)

\* a choice that takes every non-empty new value
ChooseNewValue(base_val, new_val) ==
    IF Truthy(new_val) THEN new_val ELSE base_val

\* choose_value: the new value if it is non-empty and the base value is empty
\* or shorter
choose_value(base_val, new_val) ==
    IF Truthy(new_val) /\ (~Truthy(base_val) \/ Len(new_val) > Len(base_val))
    THEN new_val ELSE base_val

\* (a + b) / 2; the ratings of the model's records have an even sum
Mean(a, b) == (a + b) \div 2

\* list(set(...)): the elements in any order
Orderings(S) == {q \in [1..Cardinality(S) -> S] : Range(q) = S}

\* list(set(base + new)) when new is not empty
CombineUnique(base, new) ==
    IF new = <<>> THEN {base} ELSE Orderings(Range(base) \cup Range(new))

\* new reviews whose id the base did not have before the merge are appended
MergeReviewsById(base, new) ==
    LET existing_review_ids == {base[i].id : i \in 1..Len(base)}
    IN  base \o SelectSeq(new, LAMBDA review :
                                    review.id \notin existing_review_ids)

\* the values base_business can have after _merge_business_data(base, new):
\* one for each order a set is listed in
_merge_business_data(base, new) ==
    LET scalars ==
            [base EXCEPT
                !.name = choose_value(base.name, new.name),
                !.address = choose_value(base.address, new.address),
                !.city = choose_value(base.city, new.city),
                !.state = choose_value(base.state, new.state),
                !.zip_code = choose_value(base.zip_code, new.zip_code),
                !.phone = choose_value(base.phone, new.phone),
                !.website = choose_value(base.website, new.website),
                !.email = choose_value(base.email, new.email),
                !.category = choose_value(base.category, new.category),
                !.cuisine_type = choose_value(base.cuisine_type,
                                              new.cuisine_type),
                !.price_level = choose_value(base.price_level,
                                             new.price_level),
                !.rating = IF TruthyNum(new.rating)
                           THEN IF TruthyNum(base.rating)
                                THEN <<Mean(base.rating[1], new.rating[1])>>
                                ELSE new.rating
                           ELSE @,
                !.review_count = IF new.review_count > base.review_count
                                 THEN new.review_count ELSE @,
                !.hours = IF Truthy(new.hours) /\ ~Truthy(base.hours)
                          THEN new.hours ELSE @,
                !.yelp_url = IF Truthy(new.yelp_url) THEN new.yelp_url ELSE @,
                !.yelp_id = IF Truthy(new.yelp_id) THEN new.yelp_id ELSE @,
                !.google_url = IF Truthy(new.google_url) THEN new.google_url
                               ELSE @,
                !.google_place_id = IF Truthy(new.google_place_id)
                                    THEN new.google_place_id ELSE @,
                !.reviews = MergeReviewsById(base.reviews, new.reviews),
                !.last_updated = new.last_updated]
    IN  {[scalars EXCEPT !.features = f, !.photos = ph, !.data_sources = ds] :
            f \in CombineUnique(base.features, new.features),
            ph \in CombineUnique(base.photos, new.photos),
            ds \in CombineUnique(base.data_sources, new.data_sources)}

-----------------------------------------------------------------------------
(* Sequences of deduplication merges and detail merges over a set of records *)

\* data_sources without a repeated entry: none, one platform, both in either
\* order
SourceLists ==
    { <<>>, <<"yelp">>, <<"google">>, <<"yelp", "google">>,
      <<"google", "yelp">> }

\* a record that a platform has listed carries a rating
SourcesUniverse ==
    {[MergeRecord EXCEPT !.data_sources = ds,
                         !.rating = IF ds = <<>> THEN <<>> ELSE <<4>>] :
        ds \in SourceLists}

InitSources ==
    /\ heap \in [1..3 -> SourcesUniverse]
    /\ search_filter = NoFilter
    /\ email_enabled = FALSE
    /\ CallInit("merges")

\* the bookkeeping of a merge of object new into object base
Merged(kind, base, new) ==
    /\ merged' = [merged EXCEPT ![base] = @ \cup Range(heap[new].data_sources)]
    /\ last_step' = Step(new, kind, base, heap)
    /\ run' = run + 1

\* self._merge_duplicate_data(primary, duplicate) on two of the records
MergeDuplicate ==
    /\ entry = "merges"
    /\ run <= MaxMerges
    /\ \E primary, duplicate \in DOMAIN heap :
        /\ primary # duplicate
        /\ heap' = [heap EXCEPT ![primary] =
                        _merge_duplicate_data(heap[primary], heap[duplicate])]
        /\ Merged("duplicate", primary, duplicate)
    /\ UNCHANGED <<schedulerVars, proxyVars, input, businesses, unique_businesses, seen_signatures, idx,
                   entry, pc, search_filter, email_enabled, call, heap0,
                   result1, heap1, dedup_in, ret>>

\* self._merge_business_data(base_business, new_business) on two of the records
MergeDetail ==
    /\ entry = "merges"
    /\ run <= MaxMerges
    /\ \E base, new \in DOMAIN heap :
        /\ base # new
        /\ \E b \in _merge_business_data(heap[base], heap[new]) :
                heap' = [heap EXCEPT ![base] = b]
        /\ Merged("detail", base, new)
    /\ UNCHANGED <<schedulerVars, proxyVars, input, businesses, unique_businesses, seen_signatures, idx,
                   entry, pc, search_filter, email_enabled, call, heap0,
                   result1, heap1, dedup_in, ret>>

NextSources == MergeDuplicate \/ MergeDetail

SpecSources == InitSources /\ [][NextSources]_vars

-----------------------------------------------------------------------------
(* _merge_business_data applied to a pair of records *)

\* the scalar text fields of a Business that are always a str, and those
\* that may be None
StrFields == {"name", "address", "city", "state", "zip_code"}

OptionalFields ==
    {"phone", "website", "email", "category", "cuisine_type", "price_level"}

\* a record whose str fields all hold one text and whose optional fields all
\* hold another
DetailRecord(text, optional) ==
    [field \in DOMAIN MergeRecord |->
        IF field \in StrFields THEN text
        ELSE IF field \in OptionalFields THEN optional
        ELSE MergeRecord[field]]

\* empty texts and texts of one and two characters, so that a pair of records
\* has fields of equal length and different content, shorter, and longer
DetailUniverse ==
    {DetailRecord(text, optional) :
        text \in {<<>>, <<"a">>, <<"b">>, <<"a", "b">>},
        optional \in {None, <<>>, <<"a">>, <<"b">>, <<"a", "b">>}}

InitDetail ==
    /\ heap \in [1..2 -> DetailUniverse]
    /\ search_filter = NoFilter
    /\ email_enabled = FALSE
    /\ CallInit("_merge_business_data")

\* enhanced_business = self._merge_business_data(enhanced_business,
\* detailed_business): the base is changed in place
CallMergeBusinessData ==
    /\ entry = "_merge_business_data"
    /\ pc = "call"
    /\ \E b \in _merge_business_data(heap[1], heap[2]) :
            heap' = [heap EXCEPT ![1] = b]
    /\ pc' = "done"
    /\ UNCHANGED <<schedulerVars, proxyVars, merged, input, businesses, unique_businesses,
                   seen_signatures, idx, entry, search_filter, email_enabled,
                   run, call, heap0, result1, heap1, dedup_in, last_step, ret>>

NextDetail == CallMergeBusinessData

SpecDetail == InitDetail /\ [][NextDetail]_vars

-----------------------------------------------------------------------------
(* _clean_text applied to a text *)

\* a word character, two whitespace characters and a character outside the
\* permitted set
CleanAlphabet == {"a", " ", "\t", "@"}

CleanTexts == UNION {[1..n -> CleanAlphabet] : n \in 0..MaxText}

InitClean ==
    /\ heap \in [1..1 -> {NewBusiness(text, <<"x", "y">>, <<"p">>, <<>>, <<>>) :
                            text \in CleanTexts}]
    /\ search_filter = NoFilter
    /\ email_enabled = FALSE
    /\ CallInit("_clean_text")

\* ret = self._clean_text(business.name)
CallCleanText ==
    /\ entry = "_clean_text"
    /\ pc = "call"
    /\ ret' = [called |-> TRUE, value |-> _clean_text(heap[1].name)]
    /\ pc' = "done"
    /\ UNCHANGED <<schedulerVars, proxyVars, merged, heap, input, businesses, unique_businesses,
                   seen_signatures, idx, entry, search_filter, email_enabled,
                   run, call, heap0, result1, heap1, dedup_in, last_step>>

NextClean == CallCleanText

SpecClean == InitClean /\ [][NextClean]_vars

-----------------------------------------------------------------------------
(* Task scheduler: TaskScheduler (automation/scheduler.py) *)

TaskIds == {"t1", "t2"}

\* dictionaries as functions: d[k] = v, and del d[k]
Put(d, k, v) == [x \in DOMAIN d \cup {k} |-> IF x = k THEN v ELSE d[x]]

Del(d, k) == [x \in DOMAIN d \ {k} |-> d[x]]

\* the task_config add_recurring_task stores: status 'active', no task_type
RecurringConfig ==
    [status |-> "active", task_type |-> None, run_time |-> None]

\* the task_config add_one_time_task stores: status 'scheduled'
OneTimeConfig(run_time) ==
    [status |-> "scheduled", task_type |-> "one_time", run_time |-> run_time]

\* the jobs add_job creates: a cron trigger, or a date trigger that fires once
CronJob == [trigger |-> "cron", run_date |-> None]

DateJob(run_time) == [trigger |-> "date", run_date |-> run_time]

InitScheduler ==
    /\ heap = <<>>
    /\ search_filter = NoFilter
    /\ email_enabled = FALSE
    /\ entry = "scheduler"
    /\ input = <<>> /\ businesses = <<>> /\ unique_businesses = <<>>
    /\ seen_signatures = {} /\ idx = 1 /\ dedup_in = <<>>
    /\ last_step = NoStep /\ pc = "call" /\ run = 1 /\ call = "first"
    /\ heap0 = <<>> /\ result1 = <<>> /\ heap1 = <<>> /\ ret = NoReturn
    /\ merged = <<>>
    /\ tasks = <<>>
    /\ task_files = <<>>
    /\ jobs = <<>>
    /\ is_running = FALSE
    /\ now = 0
    /\ task_run = [id \in TaskIds |-> "none"]
    /\ sched_pc = "up"
    /\ NoProxyManager

\* start()
Start ==
    /\ entry = "scheduler"
    /\ ~is_running
    /\ is_running' = TRUE
    /\ UNCHANGED <<processorVars, proxyVars, tasks, task_files, jobs, now,
                   task_run, sched_pc>>

\* stop(): the shutdown of the BackgroundScheduler empties its job store
Stop ==
    /\ entry = "scheduler"
    /\ is_running
    /\ is_running' = FALSE
    /\ jobs' = <<>>
    /\ UNCHANGED <<processorVars, proxyVars, tasks, task_files, now,
                   task_run, sched_pc>>

\* add_recurring_task(task_id, ...)
AddRecurringTask ==
    /\ entry = "scheduler"
    /\ \E task_id \in TaskIds :
        /\ jobs' = Put(jobs, task_id, CronJob)
        /\ tasks' = Put(tasks, task_id, RecurringConfig)
        /\ task_files' = Put(task_files, task_id, RecurringConfig)
    /\ UNCHANGED <<processorVars, proxyVars, is_running, now, task_run,
                   sched_pc>>

\* add_one_time_task(task_id, search_filter, run_time, ...)
AddOneTimeTask ==
    /\ entry = "scheduler"
    /\ \E task_id \in TaskIds, run_time \in 1..MaxTime :
        /\ jobs' = Put(jobs, task_id, DateJob(run_time))
        /\ tasks' = Put(tasks, task_id, OneTimeConfig(run_time))
        /\ task_files' = Put(task_files, task_id, OneTimeConfig(run_time))
    /\ UNCHANGED <<processorVars, proxyVars, is_running, now, task_run,
                   sched_pc>>

\* remove_task(task_id): remove_job raises for an unknown job, and nothing
\* else is done then
RemoveTask ==
    /\ entry = "scheduler"
    /\ \E task_id \in DOMAIN jobs :
        /\ jobs' = Del(jobs, task_id)
        /\ IF task_id \in DOMAIN tasks
           THEN /\ task_files' = Put(task_files, task_id,
                        [tasks[task_id] EXCEPT !.status = "cancelled"])
                /\ tasks' = Del(tasks, task_id)
           ELSE UNCHANGED <<tasks, task_files>>
    /\ UNCHANGED <<processorVars, proxyVars, is_running, now, task_run,
                   sched_pc>>

\* tasks[task_id]['status'] = status, then _save_task_config, if the task is
\* known
SetStatus(task_id, status) ==
    IF task_id \in DOMAIN tasks
    THEN LET task_config == [tasks[task_id] EXCEPT !.status = status]
         IN  /\ tasks' = Put(tasks, task_id, task_config)
             /\ task_files' = Put(task_files, task_id, task_config)
    ELSE UNCHANGED <<tasks, task_files>>

\* a job is due: a cron trigger at any time, a date trigger once its time has
\* come
Due(job) == IF job.trigger = "cron" THEN TRUE ELSE job.run_date <= now

\* the scheduler runs task_function of a due job (one instance at a time): its
\* beginning, up to the status 'running'; a date job is finished by its run
TaskStart ==
    /\ entry = "scheduler"
    /\ is_running
    /\ \E task_id \in DOMAIN jobs :
        /\ Due(jobs[task_id])
        /\ task_run[task_id] # "started"
        /\ SetStatus(task_id, "running")
        /\ task_run' = [task_run EXCEPT ![task_id] = "started"]
        /\ jobs' = IF jobs[task_id].trigger = "date" THEN Del(jobs, task_id)
                   ELSE jobs
    /\ UNCHANGED <<processorVars, proxyVars, is_running, now, sched_pc>>

\* how a run of task_function ends: scraping found nothing, processing left
\* nothing, the export was done, or an exception was raised
Outcomes == {"no_businesses", "no_valid_businesses", "completed", "failed"}

\* the rest of task_function: the two early returns leave the status alone
TaskReturn ==
    /\ entry = "scheduler"
    /\ \E task_id \in TaskIds, outcome \in Outcomes :
        /\ task_run[task_id] = "started"
        /\ IF outcome \in {"completed", "failed"}
           THEN SetStatus(task_id, outcome)
           ELSE UNCHANGED <<tasks, task_files>>
        /\ task_run' = [task_run EXCEPT ![task_id] = "returned"]
    /\ UNCHANGED <<processorVars, proxyVars, jobs, is_running, now, sched_pc>>

\* time passes
Tick ==
    /\ entry = "scheduler"
    /\ now < MaxTime
    /\ now' = now + 1
    /\ UNCHANGED <<processorVars, proxyVars, tasks, task_files, jobs,
                   is_running, task_run, sched_pc>>

\* the process ends and a new one creates its TaskScheduler(): only the files
\* are left
Restart ==
    /\ entry = "scheduler"
    /\ sched_pc = "up"
    /\ tasks' = <<>>
    /\ jobs' = <<>>
    /\ is_running' = FALSE
    /\ task_run' = [id \in TaskIds |-> "none"]
    /\ sched_pc' = "restarted"
    /\ UNCHANGED <<processorVars, proxyVars, task_files, now>>

\* load_saved_tasks re-schedules a saved task only if its status is 'active'
\* and, for a one-time task, its run_time is still to come
Reloaded(task_config) ==
    /\ task_config.status = "active"
    /\ IF task_config.task_type = "one_time" THEN task_config.run_time > now
       ELSE TRUE

\* load_saved_tasks(): a task that is re-scheduled is saved anew by
\* add_recurring_task or add_one_time_task; self.tasks gets every saved
\* configuration as it was read
LoadSavedTasks ==
    /\ entry = "scheduler"
    /\ sched_pc = "restarted"
    /\ LET reloaded == {id \in DOMAIN task_files : Reloaded(task_files[id])}
           one_time(id) == task_files[id].task_type = "one_time"
       IN  /\ jobs' = [id \in DOMAIN jobs \cup reloaded |->
                        IF id \notin reloaded THEN jobs[id]
                        ELSE IF one_time(id)
                        THEN DateJob(task_files[id].run_time)
                        ELSE CronJob]
           /\ task_files' = [id \in DOMAIN task_files |->
                        IF id \notin reloaded THEN task_files[id]
                        ELSE IF one_time(id)
                        THEN OneTimeConfig(task_files[id].run_time)
                        ELSE RecurringConfig]
           /\ tasks' = [id \in DOMAIN tasks \cup DOMAIN task_files |->
                        IF id \in DOMAIN task_files THEN task_files[id]
                        ELSE tasks[id]]
    /\ sched_pc' = "up"
    /\ UNCHANGED <<processorVars, proxyVars, is_running, now, task_run>>

NextScheduler ==
    \/ Start
    \/ Stop
    \/ AddRecurringTask
    \/ AddOneTimeTask
    \/ RemoveTask
    \/ TaskStart
    \/ TaskReturn
    \/ Tick
    \/ Restart
    \/ LoadSavedTasks

SpecScheduler == InitScheduler /\ [][NextScheduler]_vars

-----------------------------------------------------------------------------
(* Proxy rotation: ProxyManager (automation/proxy_manager.py) *)

\* the proxies the lines of the proxy list file parse to
ProxyFiles == {<<"p1">>, <<"p1", "p2">>, <<"p1", "p2", "p3">>}

\* the state after ProxyManager(): _load_proxies has read the file
InitProxy ==
    /\ heap = <<>>
    /\ search_filter = NoFilter
    /\ email_enabled = FALSE
    /\ entry = "proxy"
    /\ input = <<>> /\ businesses = <<>> /\ unique_businesses = <<>>
    /\ seen_signatures = {} /\ idx = 1 /\ dedup_in = <<>>
    /\ last_step = NoStep /\ pc = "call" /\ run = 1 /\ call = "first"
    /\ heap0 = <<>> /\ result1 = <<>> /\ heap1 = <<>> /\ ret = NoReturn
    /\ merged = <<>>
    /\ NoScheduler
    /\ proxy_file \in ProxyFiles
    /\ proxies = proxy_file
    /\ working_proxies = <<>>
    /\ current_proxy_index = 0

\* working_proxies after test_proxies on the list, where _test_single_proxy
\* returns True at the positions in passing: the list is built anew, in the
\* order of the list
RECURSIVE test_proxies(_, _)
test_proxies(list, passing) ==
    IF list = <<>> THEN <<>>
    ELSE LET rest == test_proxies(SubSeq(list, 1, Len(list) - 1), passing)
         IN  IF Len(list) \in passing THEN Append(rest, list[Len(list)])
             ELSE rest

\* test_proxies(): each test depends on the network
TestProxies ==
    /\ entry = "proxy"
    /\ \E passing \in SUBSET (1..Len(proxies)) :
        working_proxies' = test_proxies(proxies, passing)
    /\ ret' = [called |-> TRUE, raised |-> "no", value |-> Len(working_proxies')]
    /\ UNCHANGED <<processorVarsButRet, schedulerVars, proxy_file, proxies,
                   current_proxy_index>>

\* refresh_proxies(): _load_proxies appends the proxies of the file to the
\* list, then test_proxies
RefreshProxies ==
    /\ entry = "proxy"
    /\ Len(proxies) + Len(proxy_file) <= MaxProxies
    /\ proxies' = proxies \o proxy_file
    /\ \E passing \in SUBSET (1..Len(proxies')) :
        working_proxies' = test_proxies(proxies', passing)
    /\ ret' = [called |-> TRUE, raised |-> "no", value |-> None]
    /\ UNCHANGED <<processorVarsButRet, schedulerVars, proxy_file,
                   current_proxy_index>>

\* get_next_proxy(): None without working proxies; the subscript raises
\* IndexError when the index is not one of the list (Python counts from 0)
GetNextProxy ==
    /\ entry = "proxy"
    /\ IF working_proxies = <<>>
       THEN /\ ret' = [called |-> TRUE, raised |-> "no", value |-> None]
            /\ UNCHANGED current_proxy_index
       ELSE IF current_proxy_index >= Len(working_proxies)
       THEN /\ ret' = [called |-> TRUE, raised |-> "IndexError",
                       value |-> None]
            /\ UNCHANGED current_proxy_index
       ELSE /\ ret' = [called |-> TRUE, raised |-> "no",
                       value |-> working_proxies[current_proxy_index + 1]]
            /\ current_proxy_index' =
                    (current_proxy_index + 1) % Len(working_proxies)
    /\ UNCHANGED <<processorVarsButRet, schedulerVars, proxy_file, proxies,
                   working_proxies>>

NextProxy ==
    \/ TestProxies
    \/ RefreshProxies
    \/ GetNextProxy

SpecProxy == InitProxy /\ [][NextProxy]_vars

-----------------------------------------------------------------------------
(* Properties of remove_duplicates (under SpecDedup) *)

\* the first call of remove_duplicates has returned
DedupDone == entry = "remove_duplicates" /\ pc = "done" /\ run = 1

\* the records of the input that are not in the output
Dropped == Range(dedup_in) \ Range(businesses)

Signature0(id) == _create_business_signature(heap0[id])

\* C1: after remove_duplicates every input record that is absent from the
\* output has been folded into a survivor: some output record holds every
\* data source and every feature of it.
C1_DroppedFoldedIntoSurvivor ==
    DedupDone =>
        \A r \in Dropped :
            \E s \in Range(businesses) :
                /\ Range(heap0[r].data_sources) \subseteq Range(heap[s].data_sources)
                /\ Range(heap0[r].features) \subseteq Range(heap[s].features)

\* C2: of two input records with equal signatures the later one never appears
\* in the output, whatever precedes them.
C2_EqualSignaturesCollapse ==
    DedupDone =>
        \A i, j \in 1..Len(dedup_in) :
            (i < j /\ Signature0(dedup_in[i]) = Signature0(dedup_in[j]))
                => dedup_in[j] \notin Range(businesses)

\* the chain scenario: input [A, B, C], the predicate holds for B against A
\* and for C against B, but not for C against A
Chain ==
    /\ Len(dedup_in) = 3
    /\ _are_duplicates(heap0[2], heap0[1])
    /\ _are_duplicates(heap0[3], heap0[2])
    /\ ~_are_duplicates(heap0[3], heap0[1])

\* C3 as stated: in the chain scenario remove_duplicates([A, B, C]) returns
\* exactly one survivor, A.
C3_ChainYieldsOneSurvivor ==
    (DedupDone /\ Chain) => businesses = <<1>>

\* C3 as amended: in the chain scenario B is absorbed and A keeps its name,
\* address and city, so C is compared with A as it was: the result is [A, C],
\* or [A] when C has A's signature.
C3_ChainKeepsBothEnds ==
    (DedupDone /\ Chain) =>
        /\ heap[1].name = heap0[1].name
        /\ heap[1].address = heap0[1].address
        /\ heap[1].city = heap0[1].city
        /\ heap[2].is_duplicate
        /\ businesses = IF Signature0(3) = Signature0(1) THEN <<1>>
                        ELSE <<1, 3>>

C3_Witness ==
    DedupDone /\ Chain /\ businesses = <<1, 3>>
    /\ last_step.cand = 3 /\ last_step.kind = "unique"

\* C4: a candidate that duplicates several survivors is merged into the one
\* accepted earliest and into no other: every other record is as it was before
\* the step, and no survivor before the chosen one matched.
C4_FirstMatchWins ==
    last_step.kind = "similar" =>
        LET c == last_step.cand
            e == last_step.into
            before == last_step.before
            pos == CHOOSE k \in 1..Len(unique_businesses) :
                        unique_businesses[k] = e
        IN  /\ e \in Range(unique_businesses)
            /\ _are_duplicates(before[c], before[e])
            /\ \A k \in 1..(pos - 1) :
                    ~_are_duplicates(before[c], before[unique_businesses[k]])
            /\ Range(before[c].data_sources) \subseteq Range(heap[e].data_sources)
            /\ \A v \in DOMAIN heap : v \notin {c, e} => heap[v] = before[v]

C4_Witness ==
    /\ last_step.kind = "similar"
    /\ Cardinality(MatchingSurvivors(last_step.before, unique_businesses,
                                     last_step.cand)) >= 2
    /\ heap[last_step.into] # last_step.before[last_step.into]

\* C6: for an input whose records are all unflagged, remove_duplicates returns
\* exactly the unflagged input records in input order; no record appears
\* twice and the first input record survives.
C6_OutputIsUnflaggedInput ==
    DedupDone =>
        /\ businesses = SelectSeq(dedup_in, LAMBDA id : ~heap[id].is_duplicate)
        /\ \A r \in Dropped : heap[r].is_duplicate
        /\ \A s \in Range(businesses) : ~heap[s].is_duplicate
        /\ \A i, j \in 1..Len(businesses) :
                businesses[i] = businesses[j] => i = j
        /\ dedup_in # <<>> => (businesses # <<>> /\ businesses[1] = dedup_in[1])

C6_Witness ==
    /\ DedupDone
    /\ \A id \in DOMAIN heap0 : ~heap0[id].is_duplicate
    /\ \E r \in Dropped : last_step.cand = r /\ last_step.kind = "signature"
    /\ \E r \in Dropped : heap[r].is_duplicate /\ heap[r].data_sources # <<>>
    /\ Len(businesses) = 2

\* C8: remove_duplicates applied to its own result returns the same list,
\* flags nothing and changes no field of any record.
C8_DedupIdempotent ==
    (entry = "remove_duplicates" /\ pc = "done" /\ run = 2) =>
        /\ businesses = result1
        /\ heap = heap1

C8_Witness ==
    /\ entry = "remove_duplicates" /\ pc = "done" /\ run = 2
    /\ Len(result1) >= 2
    /\ \E id \in DOMAIN heap1 : heap1[id].is_duplicate
    /\ \E id \in Range(result1) : heap1[id] # heap0[id]

-----------------------------------------------------------------------------
(* Properties of _are_duplicates (under SpecPair) *)

AtLeast(sim, tenths) == 10 * sim.num >= tenths * sim.den

NonEmpty(text) == text # None /\ Len(text) > 0

-----------------------------------------------------------------------------
(* Properties of process_businesses (under SpecPipe) *)

\* the second call of process_businesses has returned
SecondDone(given) ==
    entry = "process_businesses" /\ pc = "done" /\ run = 2 /\ call = given

\* the result equals the snapshot of the first call's result, record by
\* record and field by field
SameAsFirstResult ==
    /\ businesses = result1
    /\ \A id \in Range(result1) : heap[id] = heap1[id]

\* C7: process_businesses applied to its own output (same filter, same
\* configuration) returns the same records with the same field values.
C7_PipelineIdempotent == SecondDone("output") => SameAsFirstResult

\* C9: process_businesses called again on the same input list returns a
\* result equal to a snapshot of the first call's result.
C9_RerunOnSameInput == SecondDone("input") => SameAsFirstResult

\* the record passes the filter of the call on its raw field values
PassedFilter(id) ==
    search_filter = NoFilter \/ _passes_filters(heap0[id], search_filter)

\* the record as cleaning leaves it
Cleaned0(id) == _clean_business_data(heap0[id])

\* the record passes the filter raw, has a name and is valid once cleaned
ReachedDedup(id) ==
    PassedFilter(id) /\ HasName(heap0[id]) /\ _is_valid_business(Cleaned0(id))

\* the email of a record that email validation has not touched
UnvalidatedEmail(id) ==
    IF PassedFilter(id) /\ HasName(heap0[id]) THEN Cleaned0(id).email
    ELSE heap0[id].email

\* C10: process_businesses filters, then validates and cleans, then removes
\* duplicates, then validates emails: the filter reads raw records (a record
\* it rejects is never cleaned), remove_duplicates is given exactly the
\* records that passed the filter and the validation, and email validation
\* touches only the records of the deduplicated output, and only when it is
\* enabled.
C10_StageOrder ==
    (entry = "process_businesses" /\ run = 1) =>
        /\ pc = "filter" => heap = heap0
        /\ pc \in {"filter", "validate", "dedup"} =>
                \A id \in DOMAIN heap :
                    /\ ~heap[id].email_validated
                    /\ Truthy(Cleaned0(id).email) => Truthy(heap[id].email)
        /\ pc \in {"filter", "validate"} =>
                \A id \in DOMAIN heap :
                    heap[id].data_sources = heap0[id].data_sources
                    /\ ~heap[id].is_duplicate
        /\ pc \in {"dedup", "email", "done"} =>
                /\ dedup_in = SelectSeq(ListOf(heap0), ReachedDedup)
                /\ \A id \in DOMAIN heap :
                        /\ id \notin Range(dedup_in) => ~heap[id].is_duplicate
                        /\ ~PassedFilter(id) => heap[id] = heap0[id]
        /\ pc = "done" =>
                /\ \A id \in DOMAIN heap :
                        heap[id].email_validated =>
                            email_enabled /\ id \in Range(businesses)
                /\ \A id \in DOMAIN heap \ Range(businesses) :
                        heap[id].email = UnvalidatedEmail(id)
                /\ \A id \in Range(businesses) :
                        IF email_enabled
                        THEN Truthy(heap[id].email) => heap[id].email_validated
                        ELSE Truthy(Cleaned0(id).email) =>
                                heap[id].email = Cleaned0(id).email

\* a filtered call with email validation enabled in which one record was
\* rejected by the filter, one was dropped as a duplicate with its email
\* unvalidated and the survivor's email was validated
C10_Witness ==
    /\ entry = "process_businesses" /\ run = 1 /\ pc = "done"
    /\ email_enabled /\ search_filter # NoFilter
    /\ \E id \in DOMAIN heap : ~PassedFilter(id)
    /\ \E id \in DOMAIN heap :
            /\ heap[id].is_duplicate
            /\ Truthy(heap[id].email) /\ ~heap[id].email_validated
    /\ \E id \in Range(businesses) : heap[id].email_validated


-----------------------------------------------------------------------------
(* Properties of apply_filters (under SpecFilter) *)

\* apply_filters has returned
FilterDone == entry = "apply_filters" /\ pc = "done"

Excluded(id) == id \in Range(input) /\ id \notin Range(businesses)

\* the filter supplies no criterion besides the rating bounds
OnlyRatingCriteria(f) ==
    f = [DefaultFilter EXCEPT !.min_rating = f.min_rating,
                              !.max_rating = f.max_rating]

\* the rating is present and below the lower or above the upper bound
ViolatesRatingBound(b, f) ==
    /\ b.rating # <<>>
    /\ \/ f.min_rating # <<>> /\ b.rating[1] < f.min_rating[1]
       \/ f.max_rating # <<>> /\ b.rating[1] > f.max_rating[1]

\* C11: under the min_rating and max_rating criteria a record is excluded if
\* and only if its rating is present and violates a bound, for every rating
\* in [0,5], 0 included; a record without a rating is never excluded.
C11_RatingBoundsExclude ==
    (FilterDone /\ OnlyRatingCriteria(search_filter)) =>
        \A id \in Range(input) :
            Excluded(id) <=> ViolatesRatingBound(heap[id], search_filter)

\* the filter supplies no criterion besides cuisine, price levels, features
OnlyCategoryCriteria(f) ==
    f = [DefaultFilter EXCEPT !.cuisine_type = f.cuisine_type,
                              !.price_levels = f.price_levels,
                              !.features = f.features]

CuisineMatches(b, f) ==
    /\ NonEmpty(b.cuisine_type)
    /\ Contains(Lower(b.cuisine_type), Lower(f.cuisine_type))

PriceMatches(b, f) ==
    \E i \in 1..Len(f.price_levels) : f.price_levels[i] = b.price_level

FeaturesMatch(b, f) ==
    \A i \in 1..Len(f.features) :
        \E j \in 1..Len(b.features) :
            Lower(b.features[j]) = Lower(f.features[i])

\* C12: when a cuisine_type, price_levels or features criterion is supplied, a
\* record passes it only if the criterion is a case-insensitive substring of
\* its cuisine_type, its price_level is in the whitelist, every required
\* feature is among its features up to case; a record that lacks the field
\* is excluded; with no other criterion, a record that matches is kept.
C12_CategoryCriteria ==
    FilterDone =>
        \A id \in Range(input) :
            LET b == heap[id]
                f == search_filter
                matches ==
                    /\ NonEmpty(f.cuisine_type) => CuisineMatches(b, f)
                    /\ f.price_levels # <<>> => PriceMatches(b, f)
                    /\ f.features # <<>> => FeaturesMatch(b, f)
            IN  /\ ~Excluded(id) => matches
                /\ (NonEmpty(f.cuisine_type) /\ ~NonEmpty(b.cuisine_type))
                        => Excluded(id)
                /\ (f.price_levels # <<>> /\ b.price_level = None)
                        => Excluded(id)
                /\ (f.features # <<>> /\ b.features = <<>>) => Excluded(id)
                /\ (OnlyCategoryCriteria(f) /\ matches) => ~Excluded(id)

\* a filter on all three that keeps a record on a match in another case and
\* excludes a record without cuisine_type
C12_Witness ==
    /\ FilterDone
    /\ NonEmpty(search_filter.cuisine_type)
    /\ search_filter.price_levels # <<>>
    /\ Len(search_filter.features) = 2
    /\ businesses = <<2>>
    /\ heap[2].cuisine_type # search_filter.cuisine_type
    /\ heap[1].cuisine_type = None
    /\ heap[1].price_level # None /\ heap[1].features = heap[2].features
-----------------------------------------------------------------------------
(* Properties of validate_and_clean (under SpecValidate) *)

\* the requirements on a cleaned record
MeetsRequirements(b) ==
    /\ NonEmpty(b.name) /\ Len(b.name) >= 2
    /\ (NonEmpty(b.address) \/ NonEmpty(b.city) \/ NonEmpty(b.state))
    /\ (b.rating = <<>> \/ (b.rating[1] >= 0 /\ b.rating[1] <= 5))
    /\ b.review_count >= 0

\* C13: validate_and_clean returns, in input order, exactly the input records
\* that after cleaning have a name of at least 2 characters, at least one of
\* address, city, state non-empty, a rating absent or within [0,5] and a
\* review_count >= 0; every other record is dropped and none is added.
C13_ValidatedExactly ==
    (entry = "validate_and_clean" /\ pc = "done") =>
        businesses = SelectSeq(input, LAMBDA id : MeetsRequirements(Cleaned0(id)))
-----------------------------------------------------------------------------
(* Error handling of process_businesses (under SpecPipe) *)

OutOfRange(rating) == rating # <<>> /\ (rating[1] < 0 \/ rating[1] > 5)

\* the rating out of range is the only defect of the record: it passes the
\* filter and, with the rating cleared, the validation
OnlyDefectIsRating(id) ==
    /\ OutOfRange(heap0[id].rating)
    /\ PassedFilter(id)
    /\ HasName(heap0[id])
    /\ _is_valid_business([Cleaned0(id) EXCEPT !.rating = <<>>])

\* C14: a record whose only defect is a rating outside [0,5] is not dropped by
\* process_businesses: it is in the output (or absorbed into a survivor as a
\* duplicate) and its rating is cleared or within range.
C14_OutOfRangeRatingRecovered ==
    (entry = "process_businesses" /\ pc = "done" /\ run = 1) =>
        \A id \in DOMAIN heap0 :
            OnlyDefectIsRating(id) =>
                /\ id \in Range(businesses) \/ heap[id].is_duplicate
                /\ ~OutOfRange(heap[id].rating)
-----------------------------------------------------------------------------
(* Properties of validate_emails (under SpecEmail) *)

EmailDone == entry = "validate_emails" /\ pc = "done"

-----------------------------------------------------------------------------
(* Properties of _merge_duplicate_data (under SpecMerge) *)

MergeDone == entry = "_merge_duplicate_data" /\ pc = "done"

\* fill gaps only: the primary's own value if it had one, otherwise the
\* secondary's (empty when the secondary has none either)
GapFilled(field) ==
    LET own == heap0[1][field]
        other == heap0[2][field]
        result == heap[1][field]
    IN  IF NonEmpty(own) THEN result = own
        ELSE IF NonEmpty(other) THEN result = other
        ELSE ~NonEmpty(result)

\* C16: after _merge_duplicate_data(primary, secondary) each of phone, website
\* and email of primary is primary's value before the merge if that was
\* non-empty and otherwise secondary's; a populated field is never replaced.
C16_ContactGapsFilled ==
    MergeDone => \A field \in {"phone", "website", "email"} : GapFilled(field)

\* a gap filled and a populated field kept against a different value
C16_Witness ==
    /\ MergeDone
    /\ heap0[1].phone = <<>> /\ heap[1].phone = heap0[2].phone
    /\ NonEmpty(heap0[2].phone)
    /\ NonEmpty(heap0[1].email) /\ NonEmpty(heap0[2].email)
    /\ heap0[1].email # heap0[2].email /\ heap[1].email = heap0[1].email

\* C17: after _merge_duplicate_data(primary, secondary) each of yelp_id,
\* yelp_url, google_place_id and google_url of primary, taken on its own, is
\* primary's value before the merge if that was non-empty and otherwise
\* secondary's: a populated slot is never replaced or cleared, an empty one is
\* filled whenever secondary has a value for it.
C17_PlatformSlotsFilled ==
    MergeDone =>
        \A field \in {"yelp_id", "yelp_url", "google_place_id", "google_url"} :
            GapFilled(field)

\* C18: after _merge_duplicate_data(primary, secondary) the rating of primary
\* is secondary's if secondary has a rating and more reviews than primary;
\* otherwise primary's own if it had one, and secondary's if it had none; for
\* every rating in [0,5], 0 included.
C18_RatingPolicy ==
    MergeDone =>
        LET p == heap0[1]
            s == heap0[2]
        IN  heap[1].rating =
                IF s.rating # <<>> /\ s.review_count > p.review_count
                THEN s.rating
                ELSE IF p.rating # <<>> THEN p.rating
                ELSE s.rating
-----------------------------------------------------------------------------
(* Properties of sequences of merges (under SpecSources) *)

NoRepeat(list) == \A i, j \in 1..Len(list) : list[i] = list[j] => i = j

\* C19: starting from records whose data_sources hold no repeated entry, after
\* any sequence of deduplication merges and detail merges no data_sources
\* holds a source twice, and each holds the record's own sources and every
\* source of every record merged into it.
C19_SourcesStayASet ==
    entry = "merges" =>
        \A id \in DOMAIN heap :
            /\ NoRepeat(heap[id].data_sources)
            /\ merged[id] \subseteq Range(heap[id].data_sources)
            /\ Range(heap0[id].data_sources) \subseteq Range(heap[id].data_sources)

\* a record that started without sources, took both platforms through merges
\* of both kinds, and is merged once more with a source it already has
C19_Witness ==
    /\ entry = "merges"
    /\ run = MaxMerges + 1
    /\ last_step.kind = "detail"
    /\ LET base == last_step.into
           new == last_step.cand
           before == last_step.before
       IN  /\ heap0[base].data_sources = <<>>
           /\ before[base].data_sources = <<"yelp">>
           /\ before[new].data_sources = <<"google", "yelp">>
           /\ heap[base].data_sources = <<"yelp", "google">>
           /\ merged[base] = {"yelp", "google"}
-----------------------------------------------------------------------------
(* Reviews under deduplication (under SpecDedup) *)

ReviewIds(reviews) == {reviews[i].id : i \in 1..Len(reviews)}

\* C20: after remove_duplicates absorbs a record into a survivor, the
\* survivor's reviews are its own followed by every review of the absorbed
\* record whose id it did not have, and no review id appears twice.
C20_ReviewsMergedById ==
    last_step.kind = "similar" =>
        LET own == last_step.before[last_step.into].reviews
            absorbed == last_step.before[last_step.cand].reviews
            result == heap[last_step.into].reviews
        IN  /\ result = own \o SelectSeq(absorbed, LAMBDA review :
                                            review.id \notin ReviewIds(own))
            /\ \A i, j \in 1..Len(result) :
                    result[i].id = result[j].id => i = j
-----------------------------------------------------------------------------
(* Hours and timestamps under deduplication (under SpecDedup) *)

\* C21: when remove_duplicates absorbs a record that has hours into a survivor
\* that has none, the survivor has the absorbed record's hours afterwards; a
\* survivor that already has hours keeps its own.
C21_HoursCarriedOver ==
    last_step.kind = "similar" =>
        LET own == last_step.before[last_step.into].hours
            absorbed == last_step.before[last_step.cand].hours
            result == heap[last_step.into].hours
        IN  /\ (own = None /\ absorbed # None) => result = absorbed
            /\ own # None => result = own

\* C22: after a duplicate is merged into a survivor during deduplication the
\* survivor's last_updated equals the absorbed record's, whether earlier or
\* later than its own; after several merges it is that of the record merged
\* last.
C22_LastMergedWins ==
    last_step.kind = "similar" =>
        heap[last_step.into].last_updated
            = last_step.before[last_step.cand].last_updated
-----------------------------------------------------------------------------
(* Properties of _merge_business_data (under SpecDetail) *)

DetailDone == entry = "_merge_business_data" /\ pc = "done"

\* the length of a text, 0 for None
TextLen(v) == IF v = None THEN 0 ELSE Len(v)

\* C23: after _merge_business_data(base, new) each scalar text field of base
\* holds new's value if that is non-empty and base's was empty or strictly
\* shorter, and base's value otherwise: a non-empty base value is never
\* replaced by an empty one or by one that is not longer.
C23_PreferLonger ==
    DetailDone =>
        \A field \in StrFields \cup OptionalFields :
            LET base == heap0[1][field]
                new == heap0[2][field]
                result == heap[1][field]
            IN  /\ result = IF /\ NonEmpty(new)
                               /\ (~NonEmpty(base) \/ TextLen(base) < TextLen(new))
                            THEN new ELSE base
                /\ (NonEmpty(base) /\ TextLen(new) <= TextLen(base))
                        => result = base

\* a longer new value taken, and a non-empty base value kept against a
\* different value of the same length
C23_Witness ==
    /\ DetailDone
    /\ heap0[1].name = <<"a">> /\ heap0[2].name = <<"a", "b">>
    /\ heap[1].name = <<"a", "b">>
    /\ heap0[1].phone = <<"a">> /\ heap0[2].phone = <<"b">>
    /\ heap[1].phone = <<"a">>
-----------------------------------------------------------------------------
(* Range invariants of process_businesses (under SpecPipe) *)

\* C24: every record process_businesses returns, whatever the input and after
\* any number of merges during deduplication, has a rating that is absent or
\* within [0,5] and a review_count that is not negative.
C24_OutputWithinRange ==
    (entry = "process_businesses" /\ pc = "done") =>
        \A id \in Range(businesses) :
            /\ ~OutOfRange(heap[id].rating)
            /\ heap[id].review_count >= 0

\* an input with a record that has a negative review count, which is not in
\* the output, and an output record that took rating and count from a
\* duplicate merged into it
C24_Witness ==
    /\ entry = "process_businesses" /\ pc = "done" /\ run = 1
    /\ \E id \in DOMAIN heap0 \ Range(businesses) : heap0[id].review_count < 0
    /\ \E id \in Range(businesses) :
            /\ heap[id].rating # heap0[id].rating
            /\ heap[id].review_count > heap0[id].review_count
-----------------------------------------------------------------------------
(* Properties of _clean_text (under SpecClean) *)

\* C25: for every input string the result of _clean_text holds no run of two
\* or more whitespace characters and no leading or trailing whitespace, also
\* when the character filter removes characters of the input.
C25_CleanTextNormalized ==
    (entry = "_clean_text" /\ ret.called) =>
        LET text == ret.value
        IN  /\ \A i \in 1..(Len(text) - 1) :
                    ~(text[i] \in Whitespace /\ text[i + 1] \in Whitespace)
            /\ text # <<>> =>
                    (text[1] \notin Whitespace /\ text[Len(text)] \notin Whitespace)
-----------------------------------------------------------------------------
(* Survivors of remove_duplicates (under SpecDedup) *)

\* C26: in the output of remove_duplicates any two survivors have different
\* signatures and the later one is not a duplicate of the earlier one, on
\* their final field values; merging never changes the name, address or city
\* of a record.
C26_SurvivorsPairwiseDistinct ==
    (entry = "remove_duplicates" /\ pc = "done") =>
        /\ \A i, j \in 1..Len(businesses) :
                i < j =>
                    LET s_i == heap[businesses[i]]
                        s_j == heap[businesses[j]]
                    IN  /\ _create_business_signature(s_i)
                                # _create_business_signature(s_j)
                        /\ ~_are_duplicates(s_j, s_i)
        /\ \A id \in DOMAIN heap :
                /\ heap[id].name = heap0[id].name
                /\ heap[id].address = heap0[id].address
                /\ heap[id].city = heap0[id].city

\* two survivors, the first of which has absorbed a record that would have
\* been a duplicate of the second
C26_Witness ==
    /\ DedupDone
    /\ businesses = <<1, 3>>
    /\ heap[2].is_duplicate
    /\ heap[1] # heap0[1]
    /\ _are_duplicates(heap0[3], heap0[2])
-----------------------------------------------------------------------------
(* Independence of apply_filters from city and radius (under SpecFilter) *)

\* the filter with its city and radius criteria set to the given ones
WithCityRadius(f, city, radius) == [f EXCEPT !.city = city, !.radius = radius]

\* C27: the result of apply_filters does not depend on the city or radius
\* criteria: every filter that differs from the one given only in city and
\* radius selects the same records, so a record of another city than the
\* filter's is not excluded on that account.
C27_CityRadiusIgnored ==
    FilterDone =>
        \A city \in {None, <<"p">>, <<"q">>}, radius \in {<<>>, <<5>>} :
            businesses = apply_filters(heap0, input,
                             WithCityRadius(search_filter, city, radius))

\* a filter on another city, with a radius, that keeps one listing and
\* excludes the other on its rating
C27_Witness ==
    /\ FilterDone
    /\ search_filter.city = <<"q">> /\ heap[1].city = <<"p">>
    /\ search_filter.radius # <<>>
    /\ businesses = <<1>>
    /\ ViolatesRatingBound(heap[2], search_filter)
-----------------------------------------------------------------------------
(* Properties of the task scheduler (under SpecScheduler) *)

\* a run of the task function of the task ends in this step
RunEnds(task_id) ==
    task_run[task_id] = "started" /\ task_run'[task_id] = "returned"

\* C28: every run of a task function that set the status of its task to
\* 'running' has set it to 'completed' or 'failed' when it returns, also when
\* scraping finds no businesses or processing leaves none.
C28_RunLeavesNoTaskRunning ==
    [][\A task_id \in TaskIds :
            (RunEnds(task_id) /\ task_id \in DOMAIN tasks
                /\ tasks[task_id].status = "running")
                => tasks'[task_id].status \in {"completed", "failed"}]_vars

\* a saved task that is not cancelled and not an expired one-time task
ToReschedule(task_config) ==
    /\ task_config.status # "cancelled"
    /\ IF task_config.task_type = "one_time" THEN task_config.run_time > now
       ELSE TRUE

\* C29: after a restart load_saved_tasks re-schedules every saved task that
\* is not cancelled and not an expired one-time task, whatever status its
\* last run left; only expired one-time tasks and cancelled tasks are skipped.
C29_SavedTasksRescheduled ==
    [][(sched_pc = "restarted" /\ sched_pc' = "up") =>
            \A task_id \in DOMAIN task_files :
                ToReschedule(task_files[task_id]) <=> task_id \in DOMAIN jobs']_vars
-----------------------------------------------------------------------------
(* Properties of the proxy rotation (under SpecProxy) *)

\* C30: after any sequence of test_proxies, refresh_proxies and
\* get_next_proxy, whenever working_proxies is not empty current_proxy_index
\* is less than len(working_proxies), and get_next_proxy never indexes out of
\* range.
C30_IndexWithinWorkingProxies ==
    /\ working_proxies # <<>> => current_proxy_index < Len(working_proxies)
    /\ ret.called => ret.raised # "IndexError"
=============================================================================
